---- MODULE Spec2Model ----
(***************************************************************************)
(* FoxBlogBackend: the flat-list-to-tree materializer (blog/views.py,      *)
(* list_to_tree and find_parent) and the tree-hole listing built on it     *)
(* (TreeHoleViewSet.list_treeholes_all).                                   *)
(*                                                                         *)
(* Python dicts are objects with identity: a record of the argument list   *)
(* is a reference r, and node[r] holds its fields.  The key 'children' is  *)
(* absent from a dict until a child is attached; has_children says whether *)
(* the key is present.                                                     *)
(***************************************************************************)
EXTENDS Integers, Sequences, FiniteSets, TLC

\* ---- bounds ----
MaxLen == 4      \* longest argument list given to list_to_tree
MaxId == 4       \* record ids are drawn from 1..MaxId
NMonths == 2     \* number of distinct creation months
MaxRows == 4     \* most rows of the TreeHole table
MaxDated == 3    \* most rows per table where posts and tree holes coexist
MaxPosts == 2    \* posts that exist when the comment requests start
MaxComments == 3 \* most comments ever created
MaxReq == 2      \* like / dislike requests that may overlap
MaxCount == 2    \* cap of a post's comment_count
MaxLikes == 1    \* most likes and dislikes given, requests one at a time

\* Python None.  `not item["parent_id"]` holds for None and for 0 alike,
\* and primary keys start at 1, so one falsy value stands for both.
None == 0

Ids == 1..MaxId
PassCap == MaxLen + 1    \* the pass counter saturates here

\* A creation time <<year, month, day>>; the months straddle a year end.
TimeOf(t) == <<2020 + (t \div 12), (t % 12) + 1, 15>>
Times == {TimeOf(t) : t \in 11..(10 + NMonths)}
Time0 == TimeOf(11)

VARIABLES
    table,      \* the persisted TreeHole rows, in id order
    pc,         \* position of the running call / request handler
    input,      \* the argument of list_to_tree as it was on entry
    node,       \* the dict objects: reference -> fields
    list,       \* the argument list (references), mutated in place
    tree,       \* the local `tree`
    copy,       \* the list[:] snapshot the current for loop iterates
    idx,        \* position of the for loop in copy
    passes,     \* number of passes of the while loop started (saturating)
    progress,   \* some record was attached in the current pass
    date_list,  \* the bucket labels of a date-bucketed listing
    result,     \* the response data of a date-bucketed listing
    posts,      \* the persisted Post rows: id -> fields
    comments,   \* the persisted Comment rows: id -> fields
    npost,      \* highest Post primary key handed out
    ncomment,   \* highest Comment primary key handed out
    reqs,       \* the like / dislike requests: slot -> progress
    resp,       \* outcome of the request that finished last
    made        \* per post, the comments created on it through the API

treeVars == <<table, pc, input, node, list, tree, copy, idx, passes, progress,
              date_list, result>>

blogVars == <<posts, comments, npost, ncomment, reqs, resp, made>>

vars == <<table, pc, input, node, list, tree, copy, idx, passes, progress,
          date_list, result, posts, comments, npost, ncomment, reqs, resp,
          made>>

\* ---- dict and list primitives ----

\* A row as returned by queryset.values(): no 'children' key yet.
MkNode(row) ==
    [id |-> row.id, parent_id |-> row.parent_id,
     created_time |-> row.created_time,
     has_children |-> FALSE, children |-> <<>>]

\* dict.__eq__: same keys with equal values.
DictEq(a, b) ==
    /\ a.id = b.id
    /\ a.parent_id = b.parent_id
    /\ a.created_time = b.created_time
    /\ a.has_children = b.has_children
    /\ a.children = b.children

\* list.remove(x): drops the first element equal to x.
RECURSIVE remove(_, _, _)
remove(nd, lst, item) ==
    IF lst = <<>> THEN <<>>
    ELSE IF Head(lst) = item \/ DictEq(nd[Head(lst)], nd[item])
         THEN Tail(lst)
         ELSE <<Head(lst)>> \o remove(nd, Tail(lst), item)

\* `not item["parent_id"]`
IsRoot(rec) == rec.parent_id = None

\* ---- find_parent ----

\* Variant: the search looks at the top level only.
RECURSIVE find_parent_shallow(_, _, _)
find_parent_shallow(nd, tr, item) ==
    IF tr = <<>> THEN None
    ELSE IF nd[Head(tr)].id = nd[item].parent_id THEN Head(tr)
    ELSE find_parent_shallow(nd, Tail(tr), item)

\* Variant: the search settles for the first node of the forest.
find_parent_first(nd, tr, item) ==
    IF tr = <<>> THEN None ELSE Head(tr)

\* Depth-first search of the forest for the node whose id is item's
\* parent_id; None when there is none.
RECURSIVE find_parent(_, _, _)
find_parent(nd, tr, item) ==
    IF tr = <<>> THEN None
    ELSE LET p_item == Head(tr)
             res == IF nd[p_item].id = nd[item].parent_id
                    THEN p_item
                    ELSE IF nd[p_item].has_children
                         THEN find_parent(nd, nd[p_item].children, item)
                         ELSE None
         IN  IF res # None THEN res ELSE find_parent(nd, Tail(tr), item)

\* ---- list_to_tree ----

\* Variant: the child is inserted at the front.
AppendChild_front(kids, item) == <<item>> \o kids

\* parent_node['children'].append(item), creating the key when absent.
AppendChild(kids, item) == Append(kids, item)

\* Variant: a root is inserted at the front of tree.
PartitionBody_front(m, item) ==
    IF IsRoot(m.node[item])
    THEN [m EXCEPT !.tree = <<item>> \o @,
                   !.list = remove(m.node, @, item)]
    ELSE m

\* Variant: every root is given an empty 'children' list at once.
PartitionBody_kids(m, item) ==
    IF IsRoot(m.node[item])
    THEN [m EXCEPT !.tree = Append(@, item),
                   !.node[item].has_children = TRUE,
                   !.list = remove(m.node, @, item)]
    ELSE m

\* Body of the first loop: a root moves from list to tree.
PartitionBody(m, item) ==
    IF IsRoot(m.node[item])
    THEN [m EXCEPT !.tree = Append(@, item),
                   !.list = remove(m.node, @, item)]
    ELSE m

\* Variant: a record whose parent is not found is removed all the same.
WhileBody_drop(m, item) ==
    LET parent_node == find_parent(m.node, m.tree, item)
    IN  IF parent_node = None
        THEN [m EXCEPT !.list = remove(m.node, @, item)]
        ELSE [m EXCEPT
                !.node[parent_node].children =
                    AppendChild(IF m.node[parent_node].has_children
                                THEN @ ELSE <<>>, item),
                !.node[parent_node].has_children = TRUE,
                !.list = remove(m.node, @, item)]

\* Variant: an attached record stays in the list.
WhileBody_keep(m, item) ==
    LET parent_node == find_parent(m.node, m.tree, item)
    IN  IF parent_node = None
        THEN m
        ELSE [m EXCEPT
                !.node[parent_node].children =
                    AppendChild(IF m.node[parent_node].has_children
                                THEN @ ELSE <<>>, item),
                !.node[parent_node].has_children = TRUE]

\* Body of the for loop inside while: attach item under its parent when
\* the parent is already in the forest, else leave it for a later pass.
WhileBody(m, item) ==
    LET parent_node == find_parent(m.node, m.tree, item)
    IN  IF parent_node = None
        THEN m
        ELSE [m EXCEPT
                !.node[parent_node].children =
                    AppendChild(IF m.node[parent_node].has_children
                                THEN @ ELSE <<>>, item),
                !.node[parent_node].has_children = TRUE,
                !.list = remove(m.node, @, item)]

\* Variant: the loop stops with one record left.
WhileCond_one(lst) == Len(lst) > 1

\* `while len(list) > 0`
WhileCond(lst) == Len(lst) > 0

\* The two loops run to completion on a local copy of the state.
RECURSIVE PartitionLoop(_, _)
PartitionLoop(m, cp) ==
    IF cp = <<>> THEN m
    ELSE PartitionLoop(PartitionBody(m, Head(cp)), Tail(cp))

RECURSIVE ForLoop(_, _)
ForLoop(m, cp) ==
    IF cp = <<>> THEN m
    ELSE ForLoop(WhileBody(m, Head(cp)), Tail(cp))

\* The while loop; a pass that attaches nothing repeats for ever, and the
\* state it repeats on (list not empty) is what is handed back then.
RECURSIVE WhileLoop(_)
WhileLoop(m) ==
    IF ~WhileCond(m.list) THEN m
    ELSE LET m2 == ForLoop(m, m.list)
         IN  IF m2.list = m.list THEN m ELSE WhileLoop(m2)

\* list_to_tree(s): the final list, tree and dicts.
list_to_tree(s) ==
    WhileLoop(PartitionLoop(
        [list |-> [i \in 1..Len(s) |-> i], tree |-> <<>>,
         node |-> [r \in 1..Len(s) |-> MkNode(s[r])]],
        [i \in 1..Len(s) |-> i]))

Cur == [list |-> list, tree |-> tree, node |-> node]

PartitionStep ==
    /\ pc = "partition"
    /\ idx <= Len(copy)
    /\ LET m == PartitionBody(Cur, copy[idx])
       IN  /\ list' = m.list
           /\ tree' = m.tree
           /\ node' = m.node
    /\ idx' = idx + 1
    /\ UNCHANGED <<table, pc, input, copy, passes, progress, date_list, result>>
    /\ UNCHANGED blogVars

PartitionEnd ==
    /\ pc = "partition"
    /\ idx > Len(copy)
    /\ pc' = "while"
    /\ UNCHANGED <<table, input, node, list, tree, copy, idx, passes,
                   progress, date_list, result>>
    /\ UNCHANGED blogVars

WhileTest ==
    /\ pc = "while"
    /\ IF WhileCond(list)
       THEN /\ pc' = "for"
            /\ copy' = list
            /\ idx' = 1
            /\ passes' = IF passes < PassCap THEN passes + 1 ELSE passes
            /\ progress' = FALSE
       ELSE /\ pc' = "return"
            /\ UNCHANGED <<copy, idx, passes, progress>>
    /\ UNCHANGED <<table, input, node, list, tree, date_list, result>>
    /\ UNCHANGED blogVars

ForStep ==
    /\ pc = "for"
    /\ idx <= Len(copy)
    /\ LET m == WhileBody(Cur, copy[idx])
       IN  /\ list' = m.list
           /\ tree' = m.tree
           /\ node' = m.node
           /\ progress' = (progress \/ m.list # list)
    /\ idx' = idx + 1
    /\ UNCHANGED <<table, pc, input, copy, passes, date_list, result>>
    /\ UNCHANGED blogVars

ForEnd ==
    /\ pc = "for"
    /\ idx > Len(copy)
    /\ pc' = "while"
    /\ UNCHANGED <<table, input, node, list, tree, copy, idx, passes,
                   progress, date_list, result>>
    /\ UNCHANGED blogVars

\* ---- the call list_to_tree(list) on an arbitrary argument ----

Rows == [id : Ids, parent_id : {None} \cup Ids, created_time : {Time0}]

UniqueIds(s) == \A i, j \in DOMAIN s : i # j => s[i].id # s[j].id

Inputs == UNION {{s \in [1..n -> Rows] : UniqueIds(s)} : n \in 0..MaxLen}

Refs(s) == [i \in 1..Len(s) |-> i]

Enter(s) ==
    /\ input = s
    /\ node = [r \in 1..Len(s) |-> MkNode(s[r])]
    /\ list = Refs(s)
    /\ tree = <<>>
    /\ copy = Refs(s)
    /\ idx = 1
    /\ passes = 0
    /\ progress = FALSE

\* No blog data and no blog request.
NoBlog ==
    /\ posts = <<>>
    /\ comments = <<>>
    /\ npost = 0
    /\ ncomment = 0
    /\ reqs = <<>>
    /\ resp = "none"
    /\ made = <<>>

Init ==
    /\ table = <<>>
    /\ pc = "partition"
    /\ \E s \in Inputs : Enter(s)
    /\ date_list = <<>>
    /\ result = <<>>
    /\ NoBlog

Next == PartitionStep \/ PartitionEnd \/ WhileTest \/ ForStep \/ ForEnd

Spec == Init /\ [][Next]_vars

\* The call runs on one thread with nothing to wait for: it keeps stepping.
FairSpec == Spec /\ WF_vars(Next)

\* ---- the TreeHole table and TreeHoleViewSet.list_treeholes_all ----

\* POST of a tree hole (CreateModelMixin.create through TreeHoleSerializer):
\* the id is the next primary key, created_time is read-only for the
\* client, and `parent` is null or names an existing row.  It can run at
\* any moment of a listing request.
CreateTreeHole ==
    /\ Len(table) < MaxRows
    /\ \E parent \in {None} \cup {table[i].id : i \in DOMAIN table},
          now \in Times :
          table' = Append(table, [id |-> Len(table) + 1,
                                  parent_id |-> parent,
                                  created_time |-> now])
    /\ UNCHANGED <<pc, input, node, list, tree, copy, idx, passes, progress,
                   date_list, result>>
    /\ UNCHANGED blogVars

\* list(treeholes_list.values()): the rows as fresh dicts, in whatever
\* order the query returns them, handed to list_to_tree.
TH_Fetch ==
    /\ pc = "fetch"
    /\ \E f \in Permutations(DOMAIN table) :
          LET s == [i \in 1..Len(table) |-> table[f[i]]]
          IN  /\ input' = s
              /\ node' = [r \in 1..Len(s) |-> MkNode(s[r])]
              /\ list' = Refs(s)
              /\ copy' = Refs(s)
    /\ tree' = <<>>
    /\ idx' = 1
    /\ pc' = "partition"
    /\ UNCHANGED <<table, passes, progress, date_list, result>>
    /\ UNCHANGED blogVars

\* Variant: the dates are truncated to the year.
TruncYear(dt) == <<dt[1], 1, 1>>

\* The "month" kind of QuerySet.dates: the first day of the month.
TruncMonth(dt) == <<dt[1], dt[2], 1>>

DateBefore(a, b) ==
    \/ a[1] < b[1]
    \/ a[1] = b[1] /\ a[2] < b[2]
    \/ a[1] = b[1] /\ a[2] = b[2] /\ a[3] < b[3]

\* Variant: oldest first.
RECURSIVE SortAsc(_)
SortAsc(S) ==
    IF S = {} THEN <<>>
    ELSE LET mn == CHOOSE d \in S : \A e \in S : e = d \/ DateBefore(d, e)
         IN  <<mn>> \o SortAsc(S \ {mn})

\* order="DESC"
RECURSIVE SortDesc(_)
SortDesc(S) ==
    IF S = {} THEN <<>>
    ELSE LET mx == CHOOSE d \in S : \A e \in S : e = d \/ DateBefore(e, d)
         IN  <<mx>> \o SortDesc(S \ {mx})

\* TreeHole.objects.dates("created_time", "month", order="DESC"): the
\* distinct truncated dates of the rows now in the table.
dates(tb) == SortDesc({TruncMonth(tb[i].created_time) : i \in DOMAIN tb})

\* date_field.to_representation(date)[:7]: the "YYYY-MM" head of the ISO
\* date, kept as the pair of its two numbers.
to_representation7(d) == <<d[1], d[2]>>

\* created_time.strftime('%Y-%m')
strftime_Ym(dt) == <<dt[1], dt[2]>>

\* created_time.strftime('%Y-%m-%d %H:%M:%S')
strftime_full(dt) == <<dt[1], dt[2], dt[3]>>

\* The dict appended to a group; obj.get('children') is None when the key
\* is absent, else the list of nested dicts.
GroupEntry(nd, obj) ==
    [id |-> nd[obj].id,
     parent |-> nd[obj].parent_id,
     created_time |-> strftime_full(nd[obj].created_time),
     children_is_none |-> ~nd[obj].has_children,
     children |-> nd[obj].children]

\* Body of `for obj in treeholes_formated_list`: obj joins every group
\* whose label equals its own year-month.
GroupBody(res, dl, nd, obj) ==
    LET time_str == strftime_Ym(nd[obj].created_time)
    IN  [i \in DOMAIN res |->
            IF dl[i] = time_str
            THEN [res[i] EXCEPT !.items = Append(@, GroupEntry(nd, obj))]
            ELSE res[i]]

RECURSIVE GroupLoop(_, _, _, _)
GroupLoop(res, dl, nd, objs) ==
    IF objs = <<>> THEN res
    ELSE GroupLoop(GroupBody(res, dl, nd, Head(objs)), dl, nd, Tail(objs))

\* The second query, made after list_to_tree has returned, and the empty
\* groups {date: []}.
TH_Dates ==
    /\ pc = "return"
    /\ LET ds == dates(table)
           dl == [i \in DOMAIN ds |-> to_representation7(ds[i])]
       IN  /\ date_list' = dl
           /\ result' = [i \in DOMAIN dl |-> [label |-> dl[i], items |-> <<>>]]
    /\ pc' = "group"
    /\ UNCHANGED <<table, input, node, list, tree, copy, idx, passes, progress>>
    /\ UNCHANGED blogVars

TH_Group ==
    /\ pc = "group"
    /\ result' = GroupLoop(result, date_list, node, tree)
    /\ pc' = "responded"
    /\ UNCHANGED <<table, input, node, list, tree, copy, idx, passes, progress,
                   date_list>>
    /\ UNCHANGED blogVars

InitTreeHoles ==
    /\ table = <<>>
    /\ pc = "fetch"
    /\ input = <<>>
    /\ node = <<>>
    /\ list = <<>>
    /\ tree = <<>>
    /\ copy = <<>>
    /\ idx = 1
    /\ passes = 0
    /\ progress = FALSE
    /\ date_list = <<>>
    /\ result = <<>>
    /\ NoBlog

NextTreeHoles ==
    \/ CreateTreeHole
    \/ TH_Fetch
    \/ PartitionStep \/ PartitionEnd \/ WhileTest \/ ForStep \/ ForEnd
    \/ TH_Dates
    \/ TH_Group

SpecTreeHoles == InitTreeHoles /\ [][NextTreeHoles]_vars

\* ---- PostViewSet.list_archive_dates and PostViewSet.list_archive ----

\* f with key k set to v / f without the keys outside S.
Ext(f, k, v) == [x \in (DOMAIN f) \cup {k} |-> IF x = k THEN v ELSE f[x]]
Restrict(f, S) == [x \in (DOMAIN f) \cap S |-> f[x]]

\* The orders in which a query without ORDER BY may return the keys of S.
Orders(S) ==
    {f \in [1..Cardinality(S) -> S] :
        \A i, j \in 1..Cardinality(S) : i # j => f[i] # f[j]}

\* A post is published (the site's admin): next primary key, created now.
CreatePost ==
    /\ Cardinality(DOMAIN posts) < MaxDated
    /\ \E now \in Times :
          posts' = Ext(posts, npost + 1,
                       [created_time |-> now, comment_count |-> 0,
                        like_count |-> 0])
    /\ npost' = npost + 1
    /\ UNCHANGED treeVars
    /\ UNCHANGED <<comments, ncomment, reqs, resp, made>>

\* A tree hole is posted while posts exist too.
CreateTreeHoleDated ==
    /\ Len(table) < MaxDated
    /\ CreateTreeHole

\* The labels of Post.objects.dates("created_time", "month", order="DESC").
PostDateList ==
    LET ds == dates(posts)
    IN  [i \in DOMAIN ds |-> to_representation7(ds[i])]

\* list_archive_dates: the labels are the response.
ListArchiveDates ==
    /\ pc = "archive_dates"
    /\ date_list' = PostDateList
    /\ result' = PostDateList
    /\ pc' = "dates_done"
    /\ UNCHANGED <<table, input, node, list, tree, copy, idx, passes, progress>>
    /\ UNCHANGED blogVars

\* list_archive, first query: the dates are read when date_list is built.
LA_Dates ==
    /\ pc = "archive"
    /\ date_list' = PostDateList
    /\ pc' = "archive_posts"
    /\ UNCHANGED <<table, input, node, list, tree, copy, idx, passes, progress,
                   result>>
    /\ UNCHANGED blogVars

\* The dict appended to a group of the archive.
ArchiveEntry(post) ==
    [id |-> post.id, created_time |-> strftime_full(post.created_time)]

\* Body of `for post in post_list`.
ArchiveBody(res, dl, post) ==
    LET time_str == strftime_Ym(post.created_time)
    IN  [i \in DOMAIN res |->
            IF dl[i] = time_str
            THEN [res[i] EXCEPT !.items = Append(@, ArchiveEntry(post))]
            ELSE res[i]]

RECURSIVE ArchiveLoop(_, _, _)
ArchiveLoop(res, dl, post_list) ==
    IF post_list = <<>> THEN res
    ELSE ArchiveLoop(ArchiveBody(res, dl, Head(post_list)), dl, Tail(post_list))

\* list_archive, second query: Post.objects.all() is read when the loop
\* over post_list starts; copy keeps the rows it returned.
LA_Posts ==
    /\ pc = "archive_posts"
    /\ \E f \in Orders(DOMAIN posts) :
          LET post_list == [i \in DOMAIN f |->
                              [id |-> f[i],
                               created_time |-> posts[f[i]].created_time]]
              empty == [i \in DOMAIN date_list |->
                           [label |-> date_list[i], items |-> <<>>]]
          IN  /\ copy' = post_list
              /\ result' = ArchiveLoop(empty, date_list, post_list)
    /\ pc' = "archive_done"
    /\ UNCHANGED <<table, input, node, list, tree, idx, passes, progress,
                   date_list>>
    /\ UNCHANGED blogVars

\* One listing request of any of the three kinds, with posts and tree
\* holes created around it.
InitArchive ==
    /\ table = <<>>
    /\ pc \in {"fetch", "archive", "archive_dates"}
    /\ input = <<>>
    /\ node = <<>>
    /\ list = <<>>
    /\ tree = <<>>
    /\ copy = <<>>
    /\ idx = 1
    /\ passes = 0
    /\ progress = FALSE
    /\ date_list = <<>>
    /\ result = <<>>
    /\ NoBlog

NextArchive ==
    \/ CreateTreeHoleDated
    \/ CreatePost
    \/ TH_Fetch
    \/ PartitionStep \/ PartitionEnd \/ WhileTest \/ ForStep \/ ForEnd
    \/ TH_Dates
    \/ TH_Group
    \/ ListArchiveDates
    \/ LA_Dates
    \/ LA_Posts

SpecArchive == InitArchive /\ [][NextArchive]_vars

\* ---- comments: CommentViewSet, Comment, and the post actions on them ----

\* The persisted state the requests act on.
Persisted == <<posts, comments, npost, ncomment>>

IdleReq == [op |-> "none", st |-> "idle", pk |-> 0,
            like_count |-> 0, dislike_count |-> 0, status |-> "none"]

\* like / dislike, first statement: get_object_or_404(Comment, pk=pk)
\* loads the row into an instance, or the request ends with 404.
CommentLikeGet(slot, op, pk) ==
    /\ reqs[slot].st = "idle"
    /\ IF pk \in DOMAIN comments
       THEN /\ reqs' = [reqs EXCEPT ![slot] =
                          [op |-> op, st |-> "got", pk |-> pk,
                           like_count |-> comments[pk].like_count,
                           dislike_count |-> comments[pk].dislike_count,
                           status |-> "none"]]
            /\ UNCHANGED resp
       ELSE /\ reqs' = [reqs EXCEPT ![slot] =
                          [IdleReq EXCEPT !.op = op, !.st = "done",
                                          !.pk = pk, !.status = "404"]]
            /\ resp' = "404"
    /\ UNCHANGED <<posts, comments, npost, ncomment, made>>
    /\ UNCHANGED treeVars

\* Comment.increase_like_count / increase_dislike_count on the instance:
\* the field of the instance plus one is written to that one column
\* (save(update_fields=[...])); the save fails when the row is gone.
CommentLikeSave(slot) ==
    /\ reqs[slot].st = "got"
    /\ LET r == reqs[slot]
       IN  IF r.pk \in DOMAIN comments
           THEN /\ comments' =
                     IF r.op = "like"
                     THEN [comments EXCEPT ![r.pk].like_count = r.like_count + 1]
                     ELSE [comments EXCEPT
                             ![r.pk].dislike_count = r.dislike_count + 1]
                /\ reqs' = [reqs EXCEPT ![slot].st = "done",
                                        ![slot].status = "200"]
                /\ resp' = "200"
           ELSE /\ reqs' = [reqs EXCEPT ![slot].st = "done",
                                        ![slot].status = "500"]
                /\ resp' = "500"
                /\ UNCHANGED comments
    /\ UNCHANGED <<posts, npost, ncomment, made>>
    /\ UNCHANGED treeVars

\* Post.increase_comment_count / Post.increase_like_count: the counter of
\* the row plus one.
increase_comment_count(ps, pk) == [ps EXCEPT ![pk].comment_count = @ + 1]
increase_like_count(ps, pk) == [ps EXCEPT ![pk].like_count = @ + 1]

\* CommentSerializer.is_valid: `post` and `parent` are primary-key fields
\* (parent may be null), each checked to name an existing row; fields_ok
\* stands for the checks of name, email, url and content.
is_valid(post, parent, fields_ok) ==
    /\ fields_ok
    /\ post \in DOMAIN posts
    /\ parent = None \/ parent \in DOMAIN comments

\* Variant: the post is not looked up first; a missing post is left to the
\* serializer.
CreateComment_nocheck(post, parent, fields_ok) ==
    /\ IF is_valid(post, parent, fields_ok)
       THEN /\ ncomment < MaxComments
            /\ posts[post].comment_count < MaxCount
            /\ posts' = increase_comment_count(posts, post)
            /\ comments' = Ext(comments, ncomment + 1,
                               [post |-> post, parent |-> parent,
                                like_count |-> 0, dislike_count |-> 0])
            /\ ncomment' = ncomment + 1
            /\ made' = [made EXCEPT ![post] = @ + 1]
            /\ resp' = "201"
       ELSE /\ resp' = "400"
            /\ UNCHANGED <<posts, comments, ncomment, made>>
    /\ UNCHANGED <<npost, reqs>>
    /\ UNCHANGED treeVars

\* CommentViewSet.create on the data {post, parent, ...}: 404 when the
\* post does not exist; else the post's comment_count is raised, then the
\* data are validated (400 on failure), then the comment is saved (201).
CreateComment(post, parent, fields_ok) ==
    /\ IF post \notin DOMAIN posts
       THEN /\ resp' = "404"
            /\ UNCHANGED <<posts, comments, ncomment, made>>
       ELSE /\ posts[post].comment_count < MaxCount
            /\ posts' = increase_comment_count(posts, post)
            /\ IF is_valid(post, parent, fields_ok)
               THEN /\ ncomment < MaxComments
                    /\ comments' = Ext(comments, ncomment + 1,
                                       [post |-> post, parent |-> parent,
                                        like_count |-> 0, dislike_count |-> 0])
                    /\ ncomment' = ncomment + 1
                    /\ made' = [made EXCEPT ![post] = @ + 1]
                    /\ resp' = "201"
               ELSE /\ resp' = "400"
                    /\ UNCHANGED <<comments, ncomment, made>>
    /\ UNCHANGED <<npost, reqs>>
    /\ UNCHANGED treeVars

\* The likes the posts in S have, and the likes and dislikes the comments
\* in S have.
RECURSIVE PostLikes(_)
PostLikes(S) ==
    IF S = {} THEN 0
    ELSE LET p == CHOOSE q \in S : TRUE
         IN  posts[p].like_count + PostLikes(S \ {p})

RECURSIVE CommentLikes(_)
CommentLikes(S) ==
    IF S = {} THEN 0
    ELSE LET c == CHOOSE d \in S : TRUE
         IN  comments[c].like_count + comments[c].dislike_count
                + CommentLikes(S \ {c})

LikesGiven == PostLikes(DOMAIN posts) + CommentLikes(DOMAIN comments)

\* CommentViewSet.like / dislike run without another request in between:
\* 404 when the comment does not exist, else its counter plus one is saved.
CommentLike(op, pk) ==
    /\ IF pk \notin DOMAIN comments
       THEN /\ resp' = "404"
            /\ UNCHANGED comments
       ELSE /\ LikesGiven < MaxLikes
            /\ comments' =
                 IF op = "like"
                 THEN [comments EXCEPT ![pk].like_count = @ + 1]
                 ELSE [comments EXCEPT ![pk].dislike_count = @ + 1]
            /\ resp' = "200"
    /\ UNCHANGED <<posts, npost, ncomment, reqs, made>>
    /\ UNCHANGED treeVars

\* PostViewSet.like
PostLike(pk) ==
    /\ IF pk \notin DOMAIN posts
       THEN /\ resp' = "404"
            /\ UNCHANGED posts
       ELSE /\ LikesGiven < MaxLikes
            /\ posts' = increase_like_count(posts, pk)
            /\ resp' = "200"
    /\ UNCHANGED <<comments, npost, ncomment, reqs, made>>
    /\ UNCHANGED treeVars

\* post.comment_set.all().order_by("-created_time") as list of dicts:
\* created_time is set by the server, so newest first is highest id first.
RECURSIVE NewestFirst(_)
NewestFirst(S) ==
    IF S = {} THEN <<>>
    ELSE LET mx == CHOOSE c \in S : \A d \in S : d <= c
         IN  <<mx>> \o NewestFirst(S \ {mx})

CommentRows(pk) ==
    LET cs == NewestFirst({c \in DOMAIN comments : comments[c].post = pk})
    IN  [i \in DOMAIN cs |->
            [id |-> cs[i], parent_id |-> comments[cs[i]].parent,
             created_time |-> Time0]]

\* PostViewSet.list_comments_all: 404, or the forest of the post's
\* comments; when list_to_tree does not return there is no response.
ListCommentsAll(pk) ==
    /\ resp' = IF pk \notin DOMAIN posts THEN "404"
               ELSE IF list_to_tree(CommentRows(pk)).list = <<>> THEN "200"
               ELSE "hang"
    /\ resp' # resp
    /\ UNCHANGED <<posts, comments, npost, ncomment, reqs, made>>
    /\ UNCHANGED treeVars

\* Variant: only the rows that point at a deleted row go, not theirs.
Doomed_shallow(seed) ==
    seed \cup {c \in DOMAIN comments : comments[c].parent \in seed}

\* on_delete=CASCADE of Comment.parent: the rows deleted with seed are the
\* rows that reach seed through parent links.
RECURSIVE Doomed(_)
Doomed(seed) ==
    LET more == seed \cup {c \in DOMAIN comments : comments[c].parent \in seed}
    IN  IF more = seed THEN seed ELSE Doomed(more)

\* A comment is deleted; its replies go with it.
DeleteComment(c) ==
    /\ c \in DOMAIN comments
    /\ comments' = Restrict(comments, (DOMAIN comments) \ Doomed({c}))
    /\ resp' = "204"
    /\ UNCHANGED <<posts, npost, ncomment, reqs, made>>
    /\ UNCHANGED treeVars

\* A post is deleted; on_delete=CASCADE of Comment.post deletes its
\* comments, and their replies go with them.
DeletePost(pk) ==
    /\ pk \in DOMAIN posts
    /\ posts' = Restrict(posts, (DOMAIN posts) \ {pk})
    /\ made' = Restrict(made, (DOMAIN posts) \ {pk})
    /\ comments' = Restrict(comments, (DOMAIN comments) \
                      Doomed({c \in DOMAIN comments : comments[c].post = pk}))
    /\ resp' = "204"
    /\ UNCHANGED <<npost, ncomment, reqs>>
    /\ UNCHANGED treeVars

PostPks == 1..(MaxPosts + 1)
CommentPks == 1..(MaxComments + 1)

InitBlog ==
    /\ table = <<>>
    /\ pc = "idle"
    /\ input = <<>>
    /\ node = <<>>
    /\ list = <<>>
    /\ tree = <<>>
    /\ copy = <<>>
    /\ idx = 1
    /\ passes = 0
    /\ progress = FALSE
    /\ date_list = <<>>
    /\ result = <<>>
    /\ posts = [p \in 1..MaxPosts |->
                  [created_time |-> Time0, comment_count |-> 0,
                   like_count |-> 0]]
    /\ npost = MaxPosts
    /\ comments = <<>>
    /\ ncomment = 0
    /\ reqs = <<IdleReq>>
    /\ resp = "none"
    /\ made = [p \in 1..MaxPosts |-> 0]

\* Requests of every kind, and deletions, one after the other.
NextBlog ==
    \/ \E op \in {"like", "dislike"}, pk \in CommentPks : CommentLike(op, pk)
    \/ \E post \in PostPks, parent \in {None} \cup CommentPks,
          fields_ok \in BOOLEAN : CreateComment(post, parent, fields_ok)
    \/ \E pk \in PostPks : PostLike(pk)
    \/ \E pk \in PostPks : ListCommentsAll(pk)
    \/ \E c \in CommentPks : DeleteComment(c)
    \/ \E pk \in PostPks : DeletePost(pk)

SpecBlog == InitBlog /\ [][NextBlog]_vars

\* Overlapping like / dislike requests on comments that exist: a comment
\* and a reply to it on the first post.
InitLikes ==
    /\ table = <<>>
    /\ pc = "idle"
    /\ input = <<>>
    /\ node = <<>>
    /\ list = <<>>
    /\ tree = <<>>
    /\ copy = <<>>
    /\ idx = 1
    /\ passes = 0
    /\ progress = FALSE
    /\ date_list = <<>>
    /\ result = <<>>
    /\ posts = [p \in 1..MaxPosts |->
                  [created_time |-> Time0, comment_count |-> 0,
                   like_count |-> 0]]
    /\ npost = MaxPosts
    /\ comments = [c \in 1..2 |->
                     [post |-> 1, parent |-> IF c = 1 THEN None ELSE 1,
                      like_count |-> 0, dislike_count |-> 0]]
    /\ ncomment = 2
    /\ reqs = [i \in 1..MaxReq |-> IdleReq]
    /\ resp = "none"
    /\ made = [p \in 1..MaxPosts |-> 0]

NextLikes ==
    \/ \E slot \in 1..MaxReq, op \in {"like", "dislike"}, pk \in CommentPks :
          CommentLikeGet(slot, op, pk)
    \/ \E slot \in 1..MaxReq : CommentLikeSave(slot)
    \/ \E c \in CommentPks : DeleteComment(c)

SpecLikes == InitLikes /\ [][NextLikes]_vars

\* ---- vocabulary of the properties ----

\* The forest in preorder: each node, then its subtree, then its siblings.
RECURSIVE Flat(_, _)
Flat(nd, tr) ==
    IF tr = <<>> THEN <<>>
    ELSE <<Head(tr)>> \o Flat(nd, nd[Head(tr)].children) \o Flat(nd, Tail(tr))

Count(seq, x) == Cardinality({i \in DOMAIN seq : seq[i] = x})
PosIn(seq, x) == CHOOSE i \in DOMAIN seq : seq[i] = x
IdsOf(nd, refs) == [i \in DOMAIN refs |-> nd[refs[i]].id]
InputIds(s) == [i \in DOMAIN s |-> s[i].id]

\* The position of the record that s[i] names as its parent: 0 for a
\* root, -1 for a dangling reference.
ParentRef(s, i) ==
    IF s[i].parent_id = None THEN 0
    ELSE IF \E j \in DOMAIN s : s[j].id = s[i].parent_id
         THEN CHOOSE j \in DOMAIN s : s[j].id = s[i].parent_id
         ELSE -1

RECURSIVE ReachesRoot(_, _, _)
ReachesRoot(s, i, k) ==
    \/ ParentRef(s, i) = 0
    \/ /\ k > 0
       /\ ParentRef(s, i) >= 1
       /\ ReachesRoot(s, ParentRef(s, i), k - 1)

Dangling(s) == \E i \in DOMAIN s : ParentRef(s, i) = -1
\* acyclic and fully resolvable
WellFormed(s) == \A i \in DOMAIN s : ReachesRoot(s, i, Len(s))
NonRoots(s) == {i \in DOMAIN s : s[i].parent_id # None}
RootRefs(s) == SelectSeq([i \in 1..Len(s) |-> i], LAMBDA i : s[i].parent_id = None)

\* Nesting depth of reference r in the forest (0 when r is not in it).
RECURSIVE DepthIn(_, _, _, _)
DepthIn(nd, tr, r, d) ==
    IF tr = <<>> THEN 0
    ELSE IF Head(tr) = r THEN d
    ELSE LET below == DepthIn(nd, nd[Head(tr)].children, r, d + 1)
         IN  IF below # 0 THEN below ELSE DepthIn(nd, Tail(tr), r, d)

Returned == pc = "return"

\* ---- properties of list_to_tree ----

\* C1: for an acyclic, fully resolvable input with unique ids the returned
\* forest holds every input record exactly once: flattened over all levels
\* it has the same multiset of ids as the input.
C1_Lossless ==
    (Returned /\ WellFormed(input)) =>
        LET flat == Flat(node, tree)
        IN  /\ \A r \in DOMAIN input : Count(flat, r) = 1
            /\ Len(flat) = Len(input)
            /\ \A id \in Ids :
                 Count(IdsOf(node, flat), id) = Count(InputIds(input), id)

C1_Witness ==
    /\ Returned
    /\ WellFormed(input)
    /\ Len(input) >= 3
    /\ \E r \in DOMAIN input : DepthIn(node, tree, r, 1) >= 3

\* C2: on an input with a dangling parent reference the call terminates.
C2_DanglingTerminates == Dangling(input) => <>Returned

\* C3: on an acyclic, fully resolvable input the call terminates, every
\* pass of the while loop attaches at least one record, and there are at
\* most as many passes as non-root records.
C3_Terminates ==
    /\ WellFormed(input) => <>Returned
    /\ [](WellFormed(input) /\ pc = "for" /\ idx > Len(copy) => progress)
    /\ [](WellFormed(input) => passes <= Cardinality(NonRoots(input)))

C3_Witness ==
    /\ Returned
    /\ WellFormed(input)
    /\ passes >= 2
    /\ passes < Cardinality(NonRoots(input))

\* C4: every node below the top level is in the children of exactly the
\* node whose id is its parent_id.  It holds of the forest while it is
\* built, hence of the forest returned.
C4_UnderDirectParent ==
    /\ \A p \in DOMAIN node : \A k \in DOMAIN node[p].children :
          node[node[p].children[k]].parent_id = node[p].id
    /\ \A r \in DOMAIN node :
          Cardinality({<<p, k>> \in (DOMAIN node) \X (1..MaxLen) :
                          /\ k \in DOMAIN node[p].children
                          /\ node[p].children[k] = r})
            = (IF DepthIn(node, tree, r, 1) >= 2 THEN 1 ELSE 0)

C4_Witness ==
    /\ Returned
    /\ \E r \in DOMAIN node : DepthIn(node, tree, r, 1) = 3
    /\ \E r \in DOMAIN node : DepthIn(node, tree, r, 1) = 2 /\ ~node[r].has_children

\* C5 as stated: the children of every node are in input order, whatever
\* the position of the parent in the input.
C5_ChildrenInInputOrder ==
    Returned =>
        \A p \in DOMAIN node : \A i, j \in DOMAIN node[p].children :
            i < j => node[p].children[i] < node[p].children[j]

\* C5 amended: two siblings are in input order in their parent's children
\* unless the parent is not a root and lies between them in the input;
\* then the sibling that follows the parent comes first.
C5_ChildrenInAttachOrder ==
    Returned =>
        \A p \in DOMAIN node : \A i, j \in DOMAIN node[p].children :
            LET x == node[p].children[i]
                y == node[p].children[j]
            IN  x < y =>
                  ((i < j) <=> ~(~IsRoot(node[p]) /\ x < p /\ p < y))

C5_Witness ==
    /\ Returned
    /\ \E p \in DOMAIN node :
          /\ Len(node[p].children) = 2
          /\ node[p].children[1] > p
          /\ node[p].children[2] < p

\* C6: the top level of the forest is the records with a null parent_id,
\* in input order, from the end of the first loop on; when every record is
\* a root the forest returned is the input and no record has children.
C6_RootsInInputOrder ==
    /\ pc # "partition" => tree = RootRefs(input)
    /\ (Returned /\ NonRoots(input) = {}) =>
          /\ tree = Refs(input)
          /\ \A r \in DOMAIN node : node[r] = MkNode(input[r])

C6_Witness ==
    /\ Returned
    /\ Len(tree) >= 2
    /\ NonRoots(input) # {}
    /\ \E r \in NonRoots(input) : tree[1] < r /\ r < tree[2]

\* C7 as stated: every node of the returned forest carries a children
\* field.
C7_EveryNodeHasChildren ==
    Returned => \A r \in DOMAIN node : node[r].has_children

\* C7 amended: a node carries a children field exactly when a record was
\* attached to it, and the field is then the non-empty sequence of the
\* records that name it as parent; a leaf has no children field.  For the
\* input 1 (root), 2 (parent 1), 3 (parent 2), 4 (root): 1 and 2 carry
\* children, 3 and 4 do not.
C7_ChildrenOnlyWhenAttached ==
    /\ \A r \in DOMAIN node :
          node[r].has_children <=> node[r].children # <<>>
    /\ Returned =>
          \A r \in DOMAIN node :
              node[r].has_children <=>
                  \E k \in DOMAIN input : input[k].parent_id = input[r].id
    /\ (Returned /\ InputIds(input) = <<1, 2, 3, 4>>
          /\ [i \in 1..4 |-> input[i].parent_id] = <<None, 1, 2, None>>) =>
          /\ tree = <<1, 4>>
          /\ node[1].children = <<2>> /\ node[2].children = <<3>>
          /\ ~node[3].has_children /\ ~node[4].has_children

C7_Witness ==
    /\ Returned
    /\ InputIds(input) = <<1, 2, 3, 4>>
    /\ [i \in 1..4 |-> input[i].parent_id] = <<None, 1, 2, None>>

\* C8 as stated: after the call the caller's list holds the same records
\* in the same order.
C8_ArgumentUntouched ==
    Returned =>
        /\ list = Refs(input)
        /\ \A r \in DOMAIN node : node[r] = MkNode(input[r])

\* C8 amended: the call consumes its argument: when it returns the list it
\* was given is empty, and the records have changed in their children
\* field only (id, parent_id and payload are as passed).
C8_ArgumentConsumed ==
    /\ Returned => list = <<>>
    /\ DOMAIN node = DOMAIN input
    /\ \A r \in DOMAIN node :
          /\ node[r].id = input[r].id
          /\ node[r].parent_id = input[r].parent_id
          /\ node[r].created_time = input[r].created_time

C8_Witness ==
    /\ Returned
    /\ Len(input) = MaxLen
    /\ list = <<>>
    /\ \E r \in DOMAIN node : node[r].has_children

\* C9: flattening the returned forest (preorder, records reduced to their
\* own fields) and materializing again gives the same roots in the same
\* order and the same children sequence at every node.
FlattenBack(m) ==
    LET flat == Flat(m.node, m.tree)
    IN  [i \in 1..Len(flat) |->
            [id |-> m.node[flat[i]].id,
             parent_id |-> m.node[flat[i]].parent_id,
             created_time |-> m.node[flat[i]].created_time]]

\* A forest by value: ids of the roots, and per id the ids of the children.
ForestById(m) ==
    [roots |-> IdsOf(m.node, m.tree),
     kids |-> [id \in Ids |->
                 IF \E r \in DOMAIN m.node : m.node[r].id = id
                 THEN LET r == CHOOSE r \in DOMAIN m.node : m.node[r].id = id
                      IN  <<m.node[r].has_children,
                            IdsOf(m.node, m.node[r].children)>>
                 ELSE <<FALSE, <<>>>>]]

C9_Idempotent ==
    (Returned /\ WellFormed(input)) =>
        LET again == list_to_tree(FlattenBack(Cur))
        IN  /\ again.list = <<>>
            /\ ForestById(again) = ForestById(Cur)

C9_Witness ==
    /\ Returned
    /\ WellFormed(input)
    /\ Flat(node, tree) # Refs(input)
    /\ \E p \in DOMAIN node : Len(node[p].children) >= 2
    /\ Len(tree) >= 2

\* ---- properties of list_treeholes_all ----

Responded == pc = "responded"

\* The places <<g, k>> of the response where the record with this id is.
PlacesOf(id) ==
    {<<g, k>> \in (DOMAIN result) \X (1..MaxRows) :
        k \in DOMAIN result[g].items /\ result[g].items[k].id = id}

\* C10: in the response every root of the forest is in exactly one group,
\* the group labelled with the year-month of its own created_time, and
\* carries its subtree; only roots are entries of a group.
C10_RootsInOwnMonth ==
    Responded =>
        /\ \A t \in DOMAIN tree :
              LET r == tree[t]
              IN  /\ Cardinality(PlacesOf(node[r].id)) = 1
                  /\ \A pl \in PlacesOf(node[r].id) :
                        /\ result[pl[1]].label =
                              <<node[r].created_time[1], node[r].created_time[2]>>
                        /\ result[pl[1]].items[pl[2]].children = node[r].children
                        /\ result[pl[1]].items[pl[2]].children_is_none
                              = ~node[r].has_children
        /\ \A g \in DOMAIN result : \A k \in DOMAIN result[g].items :
              /\ result[g].items[k].parent = None
              /\ \E t \in DOMAIN tree : node[tree[t]].id = result[g].items[k].id

\* Two roots of different months, one with a reply, and a tree hole
\* created while the request was running.
C10_Witness ==
    /\ Responded
    /\ Len(result) >= 2
    /\ \A g \in DOMAIN result : result[g].items # <<>>
    /\ \E g \in DOMAIN result : \E k \in DOMAIN result[g].items :
          result[g].items[k].children # <<>>
    /\ Len(table) > Len(input)

\* ---- properties of the date-bucketed listings ----

LabelBefore(a, b) == a[1] < b[1] \/ (a[1] = b[1] /\ a[2] < b[2])

\* dl holds the year-month of every row of tb, each once, newest first.
LabelsOf(dl, tb) ==
    /\ {dl[i] : i \in DOMAIN dl} =
          {<<tb[k].created_time[1], tb[k].created_time[2]>> : k \in DOMAIN tb}
    /\ \A i, j \in DOMAIN dl : i < j => LabelBefore(dl[j], dl[i])

C19_EveryPostInOneGroup ==
    pc = "archive_done" =>
        \A k \in DOMAIN copy :
            Cardinality({<<g, j>> \in (DOMAIN result) \X (1..MaxDated) :
                            /\ j \in DOMAIN result[g].items
                            /\ result[g].items[j].id = copy[k].id}) = 1

\* ---- the records during list_to_tree ----

\* C18: at every point of the call, dangling references or not, each
\* input record is either in the remaining list or in the forest built so
\* far, once; and a record that is in the forest stays in it.
C18_ListOrForest ==
    /\ [](\A r \in DOMAIN input :
             Count(list, r) + Count(Flat(node, tree), r) = 1)
    /\ [][\A r \in DOMAIN input :
             Count(Flat(node, tree), r) = 1
                => Count(Flat(node', tree'), r) = 1]_vars

C18_Witness ==
    /\ pc = "for"
    /\ Dangling(input)
    /\ passes >= 2
    /\ list # <<>>
    /\ \E r \in DOMAIN node : DepthIn(node, tree, r, 1) = 2

\* ---- properties of the comment requests ----

\* The like (dislike) requests on comment c that were answered with 200.
Served(c, op) ==
    Cardinality({slot \in DOMAIN reqs :
                    /\ reqs[slot].st = "done"
                    /\ reqs[slot].status = "200"
                    /\ reqs[slot].op = op
                    /\ reqs[slot].pk = c})

\* C12: no increment is lost: whatever the interleaving, the like_count
\* (dislike_count) of a comment is higher than at the start by the number
\* of like (dislike) requests served on it.
C12_NoLostIncrement ==
    \A c \in DOMAIN comments :
        /\ comments[c].like_count = Served(c, "like")
        /\ comments[c].dislike_count = Served(c, "dislike")

\* C13: the step by which a like request writes raises like_count of its
\* comment by one and changes nothing else of this or any other comment,
\* and symmetrically for dislike, also when requests on one comment
\* interleave.
C13_LikeChangesOneCounter ==
    [][\A slot \in DOMAIN reqs :
          (CommentLikeSave(slot) /\ reqs[slot].pk \in DOMAIN comments) =>
              LET c == reqs[slot].pk
              IN  /\ DOMAIN comments' = DOMAIN comments
                  /\ comments'[c] =
                        IF reqs[slot].op = "like"
                        THEN [comments[c] EXCEPT !.like_count = @ + 1]
                        ELSE [comments[c] EXCEPT !.dislike_count = @ + 1]
                  /\ \A d \in (DOMAIN comments) \ {c} :
                        comments'[d] = comments[d]
                  /\ posts' = posts]_vars

\* All comments as flat records, oldest first.
AllCommentRows ==
    LET cs == NewestFirst(DOMAIN comments)
    IN  [i \in DOMAIN cs |->
            [id |-> cs[Len(cs) + 1 - i],
             parent_id |-> comments[cs[Len(cs) + 1 - i]].parent,
             created_time |-> Time0]]

\* C14: after any sequence of creations through the API and of cascade
\* deletions, every non-null parent names a comment that exists and the
\* parent links lead from every comment to a root.
C14_CommentsAreForest ==
    /\ \A c \in DOMAIN comments :
          comments[c].parent = None \/ comments[c].parent \in DOMAIN comments
    /\ WellFormed(AllCommentRows)

C14_Witness ==
    /\ resp = "204"
    /\ ncomment >= 3
    /\ Cardinality(DOMAIN comments) = ncomment - 2
    /\ DOMAIN posts = 1..MaxPosts

\* C15: a request that names a post or a comment that does not exist ends
\* with 404 and leaves the persisted state as it was.
C15_NotFoundChangesNothing ==
    [][/\ \A post \in PostPks \ DOMAIN posts :
             \A parent \in {None} \cup CommentPks, fields_ok \in BOOLEAN :
                CreateComment(post, parent, fields_ok) =>
                    (resp' = "404" /\ UNCHANGED <<Persisted, made>>)
       /\ \A pk \in PostPks \ DOMAIN posts :
             (PostLike(pk) \/ ListCommentsAll(pk)) =>
                    (resp' = "404" /\ UNCHANGED <<Persisted, made>>)
       /\ \A pk \in CommentPks \ DOMAIN comments :
             \A op \in {"like", "dislike"} :
                CommentLike(op, pk) =>
                    (resp' = "404" /\ UNCHANGED <<Persisted, made>>)]_vars

C15_Witness ==
    /\ resp = "404"
    /\ comments # <<>>
    /\ \E p \in DOMAIN posts : posts[p].comment_count > 0
    /\ LikesGiven > 0

\* C16: every comment with a parent is on the post of its parent, so the
\* comments of a post, as list_comments_all hands them to list_to_tree,
\* hold the parent of each of their non-root records.
C16_ParentOnSamePost ==
    /\ \A c \in DOMAIN comments :
          comments[c].parent # None =>
              /\ comments[c].parent \in DOMAIN comments
              /\ comments[comments[c].parent].post = comments[c].post
    /\ \A pk \in DOMAIN posts : ~Dangling(CommentRows(pk))

\* C17: the comment_count of a post has grown by the number of comments
\* the create requests made on it.
C17_CountIsCreated ==
    \A p \in DOMAIN posts : posts[p].comment_count = made[p]

====
